---- MODULE Spec2Model ----
(***************************************************************************)
(* A model of advanced-vector/vector.h: RawMemory<T> (an owner of one      *)
(* block of uninitialised storage) and Vector<T> (a RawMemory plus the     *)
(* number of constructed elements in it).                                  *)
(*                                                                         *)
(* A Vector is its capacity, its size, the contents of the slots of its    *)
(* block and the state of that block. A slot is Raw (no object), Moved (a  *)
(* moved-from object) or a value. Every operation takes the index f of the *)
(* element operation that throws (0: none), counted in the order the code  *)
(* performs the operations that can throw. A call is one step; Return      *)
(* hands control back to the caller, who may then make the next call.      *)
(*                                                                         *)
(* RawMemory on its own is modelled over a heap of numbered blocks.        *)
(***************************************************************************)
EXTENDS Integers, Sequences, FiniteSets, TLC

VARIABLES elemKind, vec, ub, last, pushes, calls, hist, raw, heap

vars == <<elemKind, vec, ub, last, pushes, calls, hist, raw, heap>>

\* ------------------------------------------------------------------ bounds
HeapSlots == 4
MaxOps == 6
NumBlocks == 3
NumRaw == 3

\* ------------------------------------------------------------- the element
\* "move": T is nothrow-move-constructible and -assignable; a moved-from
\*         object is left in a state of its own (Moved).
\* "copy": T has copy operations only, which may throw; std::move of a T
\*         copies it.
Kinds == {"move", "copy"}
Values == {"a", "b"}
DefaultVal == "a"
Raw == "raw"
Moved == "moved"
Null == 0

Vecs == {1, 2}
BlockIds == 1..NumBlocks
RawObjs == 1..NumRaw
FailPoints == 0..(HeapSlots + 2)

UseMove(kind) == kind = "move"

\* What moving from an object holding x leaves in it.
MovedFrom(kind, x) == IF kind = "move" THEN Moved ELSE x

Max(a, b) == IF a >= b THEN a ELSE b

\* The fail index left after n element operations that can throw went through.
After(f, n) == IF f = 0 THEN 0 ELSE f - n
Thrown(f, n) == f >= 1 /\ f <= n

\* -------------------------------------------------------------- the algorithms
\* The result of one call: the vector r after it, the branch taken, what threw
\* ("none": the call returned), the element objects constructed and destroyed
\* by it, the blocks allocated and the calls of operator delete on a non-null
\* pointer, and the index returned (-1: none).
Outcome(r, path, what, ctor, dtor, allocs, frees, ret) ==
    [r |-> r, path |-> path, what |-> what, ctor |-> ctor, dtor |-> dtor,
     allocs |-> allocs, frees |-> frees, ret |-> ret]

RawSlots(n) == [i \in 1..n |-> Raw]

MemOf(n) == IF n # 0 THEN "owned" ELSE "none"

EmptyVec == [alive |-> TRUE, cap |-> 0, size |-> 0, slots |-> << >>, mem |-> "none"]
DeadVec == [alive |-> FALSE, cap |-> 0, size |-> 0, slots |-> << >>, mem |-> "none"]

Elems(r) == SubSeq(r.slots, 1, r.size)

\* dst with src[so .. so+n) constructed at (or assigned to) dst[to .. to+n),
\* offsets counted from 0.
CopyN(src, so, n, dst, to) ==
    [i \in 1..Len(dst) |-> IF i > to /\ i <= to + n THEN src[so + (i - to)] ELSE dst[i]]

\* src after its elements [so .. so+n) were moved from.
MovedFromN(src, so, n) ==
    [i \in 1..Len(src) |-> IF i > so /\ i <= so + n THEN Moved ELSE src[i]]

DestroyN(slots, from, n) ==
    [i \in 1..Len(slots) |-> IF i > from /\ i <= from + n THEN Raw ELSE slots[i]]

ValueConstructN(slots, from, n) ==
    [i \in 1..Len(slots) |-> IF i > from /\ i <= from + n THEN DefaultVal ELSE slots[i]]

\* The transfer of src[so .. so+n) into raw dst[to ..): moved when T's move
\* cannot throw, else copied; a copy that throws destroys the copies the same
\* call made. f: the copy that throws.
TransferN(kind, src, so, n, dst, to, f) ==
    IF UseMove(kind)
    THEN [src |-> MovedFromN(src, so, n), dst |-> CopyN(src, so, n, dst, to),
          threw |-> FALSE, ctor |-> n, dtor |-> 0, used |-> 0]
    ELSE IF Thrown(f, n)
         THEN [src |-> src, dst |-> dst, threw |-> TRUE, ctor |-> f - 1, dtor |-> f - 1, used |-> f]
         ELSE [src |-> src, dst |-> CopyN(src, so, n, dst, to),
               threw |-> FALSE, ctor |-> n, dtor |-> 0, used |-> n]

\* FillNewData with the count one short: the last element is left behind.
FillNewDataShort(kind, r, dst, f) == TransferN(kind, r.slots, 0, r.size - 1, dst, 0, f)

FillNewData(kind, r, dst, f) == TransferN(kind, r.slots, 0, r.size, dst, 0, f)

\* Growth by one slot instead of doubling.
GrowCapByOne(size) == size + 1

GrowCap(size) == IF size = 0 THEN 1 ELSE size * 2

\* data_.Swap(new_data): r owns the new block with the slots nd.
SwapIn(r, nd, size) == [r EXCEPT !.cap = Len(nd), !.slots = nd, !.size = size, !.mem = MemOf(Len(nd))]

\* The calls of operator delete on a non-null pointer when a RawMemory of
\* capacity n is destroyed.
Freed(n) == IF n # 0 THEN 1 ELSE 0

EmplaceBack(kind, r, x, f) ==
    IF r.size < r.cap
    THEN IF f = 1
         THEN Outcome(r, "inplace", "value", 0, 0, 0, 0, -1)
         ELSE Outcome([r EXCEPT !.slots[r.size + 1] = x, !.size = r.size + 1],
                      "inplace", "none", 1, 0, 0, 0, r.size)
    ELSE LET nd == [RawSlots(GrowCap(r.size)) EXCEPT ![r.size + 1] = x]
             t == FillNewData(kind, r, nd, After(f, 1))
         IN  IF f = 1
             THEN Outcome(r, "realloc", "value", 0, 0, 1, 1, -1)
             ELSE IF t.threw
             THEN Outcome(r, "realloc", "copy", 1 + t.ctor, t.dtor, 1, 1, -1)
             ELSE Outcome(SwapIn(r, t.dst, r.size + 1), "realloc", "none",
                          1 + t.ctor, r.size, 1, Freed(r.cap), r.size)

PopBackOp(r) ==
    IF r.size > 0
    THEN Outcome([r EXCEPT !.slots[r.size] = Raw, !.size = r.size - 1], "pop", "none", 0, 1, 0, 0, -1)
    ELSE Outcome(r, "noop", "none", 0, 0, 0, 0, -1)

\* operator delete(end()) in Emplace's handler. With size_ = 0 end() is the
\* block itself, which is released while data_ still points to it. With
\* size_ > 0 the pointer was never returned by operator new: undefined
\* behaviour, of which u is the outcome.
DeleteEnd(r, u) == IF r.size = 0 THEN [r EXCEPT !.mem = "freed"] ELSE [r EXCEPT !.mem = u]

DeleteOutcomes == {"owned", "corrupt"}

\* The slots after new (end()) T(move(data_[size_ - 1])) and the first k
\* assignments of move_backward(begin() + p, end() - 1, end()).
ShiftRight(kind, slots, p, size, k) ==
    [i \in 1..Len(slots) |->
        IF i = size + 1 THEN slots[size]
        ELSE IF i >= size - k + 1 /\ i <= size THEN slots[i - 1]
        ELSE IF i = size - k THEN MovedFrom(kind, slots[i])
        ELSE slots[i]]

EmplaceInPlace(kind, r, p, x, f, u) ==
    LET m == r.size - 1 - p
        full == [ShiftRight(kind, r.slots, p, r.size, m) EXCEPT ![p + 1] = x]
    IN  IF p = r.size
        THEN IF f = 1
             THEN Outcome(DeleteEnd(r, u), "inplace", "value", 0, 0, 0, 1, -1)
             ELSE Outcome([r EXCEPT !.slots[r.size + 1] = x, !.size = r.size + 1],
                          "inplace", "none", 1, 0, 0, 0, p)
        ELSE IF f = 1
        THEN Outcome(DeleteEnd(r, u), "shift", "value", 0, 0, 0, 1, -1)
        ELSE IF UseMove(kind) \/ ~Thrown(After(f, 1), m + 2)
        THEN Outcome([r EXCEPT !.slots = full, !.size = r.size + 1],
                     "shift", "none", 2, 1, 0, 0, p)
        ELSE IF f = 2
        THEN Outcome(DeleteEnd(r, u), "shift", "move", 1, 1, 0, 1, -1)
        ELSE Outcome(DeleteEnd([r EXCEPT !.slots = ShiftRight(kind, r.slots, p, r.size, f - 3)], u),
                     "shift", "move", 2, 1, 0, 1, -1)

\* EmplaceRealloc destroying the old elements before the insertion point as
\* soon as they are transferred, before the rest is.
EmplaceReallocEager(kind, r, p, x, f) ==
    LET nd == [RawSlots(GrowCap(r.size)) EXCEPT ![p + 1] = x]
        t1 == TransferN(kind, r.slots, 0, p, nd, 0, After(f, 1))
        t2 == TransferN(kind, t1.src, p, r.size - p, t1.dst, p + 1, After(After(f, 1), t1.used))
    IN  IF f = 1
        THEN Outcome(r, "realloc", "value", 0, 0, 1, 1, -1)
        ELSE IF t1.threw
        THEN Outcome(r, "realloc", "copy", 1 + t1.ctor, t1.dtor, 1, 1, -1)
        ELSE IF t2.threw
        THEN Outcome([r EXCEPT !.slots = DestroyN(r.slots, 0, p)], "realloc", "copy",
                     1 + t1.ctor + t2.ctor, p + t2.dtor, 1, 1, -1)
        ELSE Outcome(SwapIn(r, t2.dst, r.size + 1), "realloc", "none",
                     1 + r.size, r.size, 1, Freed(r.cap), p)

EmplaceRealloc(kind, r, p, x, f) ==
    LET nd == [RawSlots(GrowCap(r.size)) EXCEPT ![p + 1] = x]
        t1 == TransferN(kind, r.slots, 0, p, nd, 0, After(f, 1))
        t2 == TransferN(kind, t1.src, p, r.size - p, t1.dst, p + 1, After(After(f, 1), t1.used))
    IN  IF f = 1
        THEN Outcome(r, "realloc", "value", 0, 0, 1, 1, -1)
        ELSE IF t1.threw
        THEN Outcome(r, "realloc", "copy", 1 + t1.ctor, t1.dtor, 1, 1, -1)
        ELSE IF t2.threw
        THEN Outcome(r, "realloc", "copy", 1 + t1.ctor + t2.ctor, t2.dtor, 1, 1, -1)
        ELSE Outcome(SwapIn(r, t2.dst, r.size + 1), "realloc", "none",
                     1 + r.size, r.size, 1, Freed(r.cap), p)

Emplace(kind, r, p, x, f, u) ==
    IF r.size < r.cap
    THEN EmplaceInPlace(kind, r, p, x, f, u)
    ELSE EmplaceRealloc(kind, r, p, x, f)

\* ShiftLeft with one assignment fewer.
ShiftLeftShort(kind, slots, p, k) ==
    [i \in 1..Len(slots) |->
        IF i >= p + 1 /\ i <= p + k - 1 THEN slots[i + 1]
        ELSE IF i = p + k /\ k >= 2 THEN MovedFrom(kind, slots[i])
        ELSE slots[i]]

\* The slots after the first k assignments of move(begin() + p + 1, end(), begin() + p).
ShiftLeft(kind, slots, p, k) ==
    [i \in 1..Len(slots) |->
        IF i >= p + 1 /\ i <= p + k THEN slots[i + 1]
        ELSE IF i = p + k + 1 /\ k >= 1 THEN MovedFrom(kind, slots[i])
        ELSE slots[i]]

Erase(kind, r, p, f) ==
    LET m == r.size - 1 - p
    IN  IF ~UseMove(kind) /\ Thrown(f, m)
        THEN Outcome([r EXCEPT !.slots = ShiftLeft(kind, r.slots, p, f - 1)], "erase", "move", 0, 0, 0, 0, -1)
        ELSE Outcome([r EXCEPT !.slots = DestroyN(ShiftLeft(kind, r.slots, p, m), r.size - 1, 1),
                               !.size = r.size - 1],
                     "erase", "none", 0, 1, 0, 0, p)

\* Reserve reallocating to n whenever n differs from the capacity.
ReserveToFit(kind, r, n, f) ==
    IF n = r.cap
    THEN Outcome(r, "noop", "none", 0, 0, 0, 0, -1)
    ELSE LET t == FillNewData(kind, r, RawSlots(n), f)
         IN  IF t.threw
             THEN Outcome(r, "realloc", "copy", t.ctor, t.dtor, 1, 1, -1)
             ELSE Outcome(SwapIn(r, t.dst, r.size), "realloc", "none",
                          t.ctor, r.size, 1, Freed(r.cap), -1)

Reserve(kind, r, n, f) ==
    IF n <= r.cap
    THEN Outcome(r, "noop", "none", 0, 0, 0, 0, -1)
    ELSE LET t == FillNewData(kind, r, RawSlots(n), f)
         IN  IF t.threw
             THEN Outcome(r, "realloc", "copy", t.ctor, t.dtor, 1, 1, -1)
             ELSE Outcome(SwapIn(r, t.dst, r.size), "realloc", "none",
                          t.ctor, r.size, 1, Freed(r.cap), -1)

Resize(kind, r, n, f) ==
    IF n = r.size
    THEN Outcome(r, "noop", "none", 0, 0, 0, 0, -1)
    ELSE IF n < r.size
    THEN Outcome([r EXCEPT !.slots = DestroyN(r.slots, n, r.size - n), !.size = n],
                 "shrink", "none", 0, r.size - n, 0, 0, -1)
    ELSE LET rs == Reserve(kind, r, n, f)
             g == IF rs.path = "noop" \/ UseMove(kind) THEN f ELSE After(f, r.size)
             k == n - r.size
         IN  IF rs.what # "none"
             THEN [rs EXCEPT !.path = "grow"]
             ELSE IF Thrown(g, k)
             THEN Outcome(rs.r, "grow", "value", rs.ctor + (g - 1), rs.dtor + (g - 1),
                          rs.allocs, rs.frees, -1)
             ELSE Outcome([rs.r EXCEPT !.slots = ValueConstructN(rs.r.slots, r.size, k), !.size = n],
                          "grow", "none", rs.ctor + k, rs.dtor, rs.allocs, rs.frees, -1)

\* Vector(size_t size): the vector constructed, DeadVec when a constructor threw.
CtorSizedOp(n, f) ==
    IF Thrown(f, n)
    THEN Outcome(DeadVec, "ctor", "value", f - 1, f - 1, Freed(n), Freed(n), -1)
    ELSE Outcome([alive |-> TRUE, cap |-> n, size |-> n, slots |-> ValueConstructN(RawSlots(n), 0, n),
                  mem |-> MemOf(n)], "ctor", "none", n, 0, Freed(n), 0, -1)

\* Vector(const Vector& other).
CtorCopyOp(b, f) ==
    IF Thrown(f, b.size)
    THEN Outcome(DeadVec, "ctor", "copy", f - 1, f - 1, Freed(b.size), Freed(b.size), -1)
    ELSE Outcome([alive |-> TRUE, cap |-> b.size, size |-> b.size,
                  slots |-> CopyN(b.slots, 0, b.size, RawSlots(b.size), 0), mem |-> MemOf(b.size)],
                 "ctor", "none", b.size, 0, Freed(b.size), 0, -1)

\* CopyAssign without the destroy_n of the elements beyond rhs's size.
CopyAssignNoDestroy(a, b, f) ==
    IF b.size > a.cap
    THEN LET c == CtorCopyOp(b, f)
         IN  IF c.what # "none"
             THEN Outcome(a, "rebuild", "copy", c.ctor, c.dtor, c.allocs, c.frees, -1)
             ELSE Outcome(c.r, "rebuild", "none", c.ctor, a.size, c.allocs, Freed(a.cap), -1)
    ELSE IF b.size < a.size
    THEN IF Thrown(f, b.size)
         THEN Outcome([a EXCEPT !.slots = CopyN(b.slots, 0, f - 1, a.slots, 0)],
                      "shorter", "assign", 0, 0, 0, 0, -1)
         ELSE Outcome([a EXCEPT !.slots = CopyN(b.slots, 0, b.size, a.slots, 0), !.size = b.size],
                      "shorter", "none", 0, 0, 0, 0, -1)
    ELSE IF Thrown(f, a.size)
         THEN Outcome([a EXCEPT !.slots = CopyN(b.slots, 0, f - 1, a.slots, 0)],
                      "longer", "assign", 0, 0, 0, 0, -1)
         ELSE IF Thrown(After(f, a.size), b.size - a.size)
         THEN Outcome([a EXCEPT !.slots = CopyN(b.slots, 0, a.size, a.slots, 0)],
                      "longer", "copy", After(f, a.size) - 1, After(f, a.size) - 1, 0, 0, -1)
         ELSE Outcome([a EXCEPT !.slots = CopyN(b.slots, 0, b.size, a.slots, 0), !.size = b.size],
                      "longer", "none", b.size - a.size, 0, 0, 0, -1)

\* operator=(const Vector& rhs) with this != &rhs.
CopyAssign(a, b, f) ==
    IF b.size > a.cap
    THEN LET c == CtorCopyOp(b, f)
         IN  IF c.what # "none"
             THEN Outcome(a, "rebuild", "copy", c.ctor, c.dtor, c.allocs, c.frees, -1)
             ELSE Outcome(c.r, "rebuild", "none", c.ctor, a.size, c.allocs, Freed(a.cap), -1)
    ELSE IF b.size < a.size
    THEN IF Thrown(f, b.size)
         THEN Outcome([a EXCEPT !.slots = CopyN(b.slots, 0, f - 1, a.slots, 0)],
                      "shorter", "assign", 0, 0, 0, 0, -1)
         ELSE Outcome([a EXCEPT !.slots = DestroyN(CopyN(b.slots, 0, b.size, a.slots, 0),
                                                   b.size, a.size - b.size),
                                !.size = b.size],
                      "shorter", "none", 0, a.size - b.size, 0, 0, -1)
    ELSE IF Thrown(f, a.size)
         THEN Outcome([a EXCEPT !.slots = CopyN(b.slots, 0, f - 1, a.slots, 0)],
                      "longer", "assign", 0, 0, 0, 0, -1)
         ELSE IF Thrown(After(f, a.size), b.size - a.size)
         THEN Outcome([a EXCEPT !.slots = CopyN(b.slots, 0, a.size, a.slots, 0)],
                      "longer", "copy", After(f, a.size) - 1, After(f, a.size) - 1, 0, 0, -1)
         ELSE Outcome([a EXCEPT !.slots = CopyN(b.slots, 0, b.size, a.slots, 0), !.size = b.size],
                      "longer", "none", b.size - a.size, 0, 0, 0, -1)

\* ~Vector().
DtorOp(r) == Outcome(DeadVec, "dtor", "none", 0, r.size, 0, Freed(r.cap), -1)

\* ------------------------------------------------------------------- state
NoLast == [op |-> "none", v |-> 0, w |-> 0, path |-> "none", what |-> "none",
           pos |-> -1, val |-> "none", ret |-> -1, ctor |-> 0, dtor |-> 0,
           allocs |-> 0, frees |-> 0, orig |-> << >>, undo |-> "none"]

Init ==
    /\ elemKind \in Kinds
    /\ vec = [v \in Vecs |-> EmptyVec]
    /\ ub = FALSE
    /\ last = NoLast
    /\ pushes = [v \in Vecs |-> 0]
    /\ calls = [push |-> 0, pop |-> 0, popEmpty |-> 0]
    /\ hist = << >>
    /\ raw = [o \in RawObjs |-> [alive |-> FALSE, buffer |-> Null, capacity |-> 0]]
    /\ heap = [b \in BlockIds |-> "free"]

\* The caller may call a member of vector v.
Ready(v) == ~ub /\ last = NoLast /\ vec[v].alive

\* The heap has room for HeapSlots elements in the blocks the vectors hold:
\* vector v may become r.
Held(vs) == vs[1].cap + vs[2].cap
Fits(vs, v, r) == Held([vs EXCEPT ![v] = r]) <= HeapSlots

\* A call that throws is listed once: f is 0 or the call throws.
Meant(o, f) == f = 0 \/ o.what # "none"

Called(o, op, v, w, pos, val) ==
    [NoLast EXCEPT !.op = op, !.v = v, !.w = w, !.path = o.path, !.what = o.what,
                   !.pos = pos, !.val = IF o.what = "none" THEN val ELSE "none", !.ret = o.ret, !.ctor = o.ctor, !.dtor = o.dtor,
                   !.allocs = o.allocs, !.frees = o.frees]

PushBackStep(v, x, f) ==
    /\ Ready(v)
    /\ f <= vec[v].size + 1
    /\ \E o \in {EmplaceBack(elemKind, vec[v], x, f)} :
        /\ Meant(o, f)
        /\ Fits(vec, v, o.r)
        /\ vec' = [vec EXCEPT ![v] = o.r]
        /\ last' = Called(o, "PushBack", v, 0, -1, x)
        /\ pushes' = [pushes EXCEPT ![v] = IF @ >= 0 /\ o.what = "none" THEN @ + 1 ELSE @]
    /\ UNCHANGED <<elemKind, ub, raw, heap>>

PopBackStep(v) ==
    /\ Ready(v)
    /\ \E o \in {PopBackOp(vec[v])} :
        /\ vec' = [vec EXCEPT ![v] = o.r]
        /\ last' = Called(o, "PopBack", v, 0, -1, "none")
    /\ pushes' = [pushes EXCEPT ![v] = -1]
    /\ UNCHANGED <<elemKind, ub, raw, heap>>

PushBack(v, x, f) == PushBackStep(v, x, f) /\ UNCHANGED <<calls, hist>>

PopBack(v) == PopBackStep(v) /\ UNCHANGED <<calls, hist>>

\* The call ran operator delete(end()): what the program does from there on
\* is undefined, and the model follows it no further.
BadDelete(o) == o.what # "none" /\ o.path # "realloc"

\* Emplace(begin() + p, x), which Insert(begin() + p, x) forwards to.
EmplaceCall(v, p, x, f, u) ==
    /\ Ready(v)
    /\ p \in 0..vec[v].size
    /\ f <= vec[v].size + 2
    /\ \E o \in {Emplace(elemKind, vec[v], p, x, f, u)} :
        /\ Meant(o, f)
        /\ Fits(vec, v, o.r)
        /\ ~BadDelete(o) => u = "owned"
        /\ vec' = [vec EXCEPT ![v] = o.r]
        /\ ub' = BadDelete(o)
        /\ last' = [Called(o, "Emplace", v, 0, p, x) EXCEPT !.orig = Elems(vec[v])]
    /\ pushes' = [pushes EXCEPT ![v] = -1]
    /\ UNCHANGED <<elemKind, calls, hist, raw, heap>>

\* The caller has just inserted at index p of vector v.
Inserted(v, p) == last.op = "Emplace" /\ last.what = "none" /\ last.v = v /\ last.pos = p

\* Erase(begin() + p), called by a caller who may just have inserted at p.
EraseCall(v, p, f) ==
    /\ ~ub /\ vec[v].alive
    /\ last = NoLast \/ Inserted(v, p)
    /\ p \in 0..(vec[v].size - 1)
    /\ f <= vec[v].size
    /\ \E o \in {Erase(elemKind, vec[v], p, f)} :
        /\ Meant(o, f)
        /\ Fits(vec, v, o.r)
        /\ vec' = [vec EXCEPT ![v] = o.r]
        /\ last' = [Called(o, "Erase", v, 0, p, "none") EXCEPT
                        !.orig = IF Inserted(v, p) THEN last.orig ELSE << >>,
                        !.undo = IF Inserted(v, p) THEN last.path ELSE "none"]
    /\ pushes' = [pushes EXCEPT ![v] = -1]
    /\ UNCHANGED <<elemKind, ub, calls, hist, raw, heap>>

ReserveCall(v, n, f) ==
    /\ Ready(v)
    /\ f <= vec[v].size
    /\ \E o \in {Reserve(elemKind, vec[v], n, f)} :
        /\ Meant(o, f)
        /\ Fits(vec, v, o.r)
        /\ vec' = [vec EXCEPT ![v] = o.r]
        /\ last' = Called(o, "Reserve", v, 0, n, "none")
    /\ pushes' = [pushes EXCEPT ![v] = -1]
    /\ UNCHANGED <<elemKind, ub, calls, hist, raw, heap>>

ResizeCall(v, n, f) ==
    /\ Ready(v)
    /\ f <= n
    /\ \E o \in {Resize(elemKind, vec[v], n, f)} :
        /\ Meant(o, f)
        /\ Fits(vec, v, o.r)
        /\ vec' = [vec EXCEPT ![v] = o.r]
        /\ last' = Called(o, "Resize", v, 0, n, "none")
    /\ pushes' = [pushes EXCEPT ![v] = -1]
    /\ UNCHANGED <<elemKind, ub, calls, hist, raw, heap>>

\* operator=(const Vector& rhs) on vectors vs[v] and vs[w].
CopyAssignOp(vs, v, w, f) ==
    IF v # w THEN CopyAssign(vs[v], vs[w], f)
             ELSE Outcome(vs[v], "self", "none", 0, 0, 0, 0, -1)

\* v = w, self-assignment included.
CopyAssignCall(v, w, f) ==
    /\ Ready(v) /\ Ready(w)
    /\ f <= vec[w].size
    /\ \E o \in {CopyAssignOp(vec, v, w, f)} :
        /\ Meant(o, f)
        /\ Fits(vec, v, o.r)
        /\ vec' = [vec EXCEPT ![v] = o.r]
        /\ last' = Called(o, "CopyAssign", v, w, -1, "none")
    /\ pushes' = [pushes EXCEPT ![v] = -1]
    /\ UNCHANGED <<elemKind, ub, calls, hist, raw, heap>>

\* v.Swap(w).
SwapOp(vs, v, w) == [vs EXCEPT ![v] = vs[w], ![w] = vs[v]]

SwapCall(v, w) ==
    /\ Ready(v) /\ Ready(w)
    /\ vec' = SwapOp(vec, v, w)
    /\ last' = [NoLast EXCEPT !.op = "Swap", !.v = v, !.w = w]
    /\ pushes' = [u \in Vecs |-> -1]
    /\ UNCHANGED <<elemKind, ub, calls, hist, raw, heap>>

\* v = std::move(w), self-assignment included.
MoveAssignOp(vs, v, w) == IF v # w THEN SwapOp(vs, v, w) ELSE vs

MoveAssignCall(v, w) ==
    /\ Ready(v) /\ Ready(w)
    /\ vec' = MoveAssignOp(vec, v, w)
    /\ last' = [NoLast EXCEPT !.op = "MoveAssign", !.v = v, !.w = w,
                              !.path = IF v = w THEN "self" ELSE "swap"]
    /\ pushes' = [u \in Vecs |-> -1]
    /\ UNCHANGED <<elemKind, ub, calls, hist, raw, heap>>

\* The constructors build vector v in the place of a destroyed one.
Buildable(v) == ~ub /\ last = NoLast /\ ~vec[v].alive

CtorDefault(v) ==
    /\ Buildable(v)
    /\ vec' = [vec EXCEPT ![v] = EmptyVec]
    /\ last' = [NoLast EXCEPT !.op = "CtorDefault", !.v = v]
    /\ pushes' = [pushes EXCEPT ![v] = 0]
    /\ UNCHANGED <<elemKind, ub, calls, hist, raw, heap>>

CtorSized(v, n, f) ==
    /\ Buildable(v)
    /\ f <= n
    /\ \E o \in {CtorSizedOp(n, f)} :
        /\ Meant(o, f)
        /\ Fits(vec, v, o.r)
        /\ vec' = [vec EXCEPT ![v] = o.r]
        /\ last' = Called(o, "CtorSized", v, 0, n, "none")
    /\ pushes' = [pushes EXCEPT ![v] = -1]
    /\ UNCHANGED <<elemKind, ub, calls, hist, raw, heap>>

CtorCopy(v, w, f) ==
    /\ Buildable(v) /\ Ready(w)
    /\ f <= vec[w].size
    /\ \E o \in {CtorCopyOp(vec[w], f)} :
        /\ Meant(o, f)
        /\ Fits(vec, v, o.r)
        /\ vec' = [vec EXCEPT ![v] = o.r]
        /\ last' = Called(o, "CtorCopy", v, w, -1, "none")
    /\ pushes' = [pushes EXCEPT ![v] = -1]
    /\ UNCHANGED <<elemKind, ub, calls, hist, raw, heap>>

\* Vector(Vector&& other): the members take their defaults, then Swap(other).
CtorMoveOp(vs, v, w) == SwapOp([vs EXCEPT ![v] = EmptyVec], v, w)

CtorMove(v, w) ==
    /\ Buildable(v) /\ Ready(w)
    /\ vec' = CtorMoveOp(vec, v, w)
    /\ last' = [NoLast EXCEPT !.op = "CtorMove", !.v = v, !.w = w]
    /\ pushes' = [u \in Vecs |-> -1]
    /\ UNCHANGED <<elemKind, ub, calls, hist, raw, heap>>

Dtor(v) ==
    /\ Ready(v)
    /\ \E o \in {DtorOp(vec[v])} :
        /\ vec' = [vec EXCEPT ![v] = o.r]
        /\ last' = Called(o, "Dtor", v, 0, -1, "none")
    /\ pushes' = [pushes EXCEPT ![v] = -1]
    /\ UNCHANGED <<elemKind, ub, calls, hist, raw, heap>>

\* The call has returned or thrown; the caller goes on.
Return ==
    /\ ~ub
    /\ last # NoLast
    /\ last' = NoLast
    /\ UNCHANGED <<elemKind, vec, ub, pushes, calls, hist, raw, heap>>

Sizes == 0..HeapSlots

Next ==
    \/ \E v \in Vecs, x \in Values, f \in FailPoints : PushBack(v, x, f)
    \/ \E v \in Vecs : PopBack(v)
    \/ \E v \in Vecs, p \in Sizes, x \in Values, f \in FailPoints, u \in DeleteOutcomes :
          EmplaceCall(v, p, x, f, u)
    \/ \E v \in Vecs, p \in Sizes, f \in FailPoints : EraseCall(v, p, f)
    \/ \E v \in Vecs, n \in Sizes, f \in FailPoints : ReserveCall(v, n, f)
    \/ \E v \in Vecs, n \in Sizes, f \in FailPoints : ResizeCall(v, n, f)
    \/ \E v \in Vecs, w \in Vecs, f \in FailPoints : CopyAssignCall(v, w, f)
    \/ \E v \in Vecs, w \in Vecs : SwapCall(v, w)
    \/ \E v \in Vecs, w \in Vecs : MoveAssignCall(v, w)
    \/ \E v \in Vecs : CtorDefault(v)
    \/ \E v \in Vecs, n \in Sizes, f \in FailPoints : CtorSized(v, n, f)
    \/ \E v \in Vecs, w \in Vecs, f \in FailPoints : CtorCopy(v, w, f)
    \/ \E v \in Vecs, w \in Vecs : CtorMove(v, w)
    \/ \E v \in Vecs : Dtor(v)
    \/ Return

Spec == Init /\ [][Next]_vars

\* ------------------------------------------- PushBack and PopBack, counted
\* One vector, default-constructed, on which only PushBack and PopBack are
\* called: calls counts the calls of PushBack that returned, the calls of
\* PopBack and those of them made on an empty vector; hist is the values
\* pushed and not popped since, oldest first.
CountedPush(x, f) ==
    /\ calls.push + calls.pop < MaxOps
    /\ PushBackStep(1, x, f)
    /\ calls' = [calls EXCEPT !.push = IF last'.what = "none" THEN @ + 1 ELSE @]
    /\ hist' = IF last'.what = "none" THEN Append(hist, x) ELSE hist

CountedPop ==
    /\ calls.push + calls.pop < MaxOps
    /\ PopBackStep(1)
    /\ calls' = [calls EXCEPT !.pop = @ + 1,
                              !.popEmpty = IF hist = << >> THEN @ + 1 ELSE @]
    /\ hist' = IF hist = << >> THEN hist ELSE SubSeq(hist, 1, Len(hist) - 1)

NextPP ==
    \/ \E x \in Values, f \in FailPoints : CountedPush(x, f)
    \/ CountedPop
    \/ Return

SpecPP == Init /\ [][NextPP]_vars

\* ------------------------------------------------------ RawMemory, on its own
RawSizes == {0, 1, 2}

HasFree(h) == \E b \in BlockIds : h[b] = "free"

\* Allocate(n): operator new hands out a block not in use, nullptr for n = 0.
Allocate(h, n) ==
    IF n # 0
    THEN CHOOSE b \in BlockIds : h[b] = "free" /\ \A c \in BlockIds : h[c] = "free" => b <= c
    ELSE Null

Allocated(h, b) == IF b = Null THEN h ELSE [h EXCEPT ![b] = "alloc"]

\* Deallocate(buf): operator delete; a block released twice is "corrupt".
Deallocate(h, b) ==
    IF b = Null THEN h ELSE [h EXCEPT ![b] = IF @ = "alloc" THEN "free" ELSE "corrupt"]

DeadRaw == [alive |-> FALSE, buffer |-> Null, capacity |-> 0]

\* RawMemory(size_t capacity), and RawMemory() for n = 0.
RawCtor(o, n) ==
    /\ ~raw[o].alive
    /\ n = 0 \/ HasFree(heap)
    /\ raw' = [raw EXCEPT ![o] = [alive |-> TRUE, buffer |-> Allocate(heap, n), capacity |-> n]]
    /\ heap' = Allocated(heap, Allocate(heap, n))
    /\ UNCHANGED <<elemKind, vec, ub, last, pushes, calls, hist>>

\* buffer_ = other.buffer_; capacity_ = other.capacity_; then other is emptied.
TakeFrom(rs, o, src) ==
    [[rs EXCEPT ![o].buffer = rs[src].buffer, ![o].capacity = rs[src].capacity]
        EXCEPT ![src].buffer = Null, ![src].capacity = 0]

\* RawMemory(RawMemory&& other).
RawMoveCtor(o, src) ==
    /\ ~raw[o].alive /\ raw[src].alive
    /\ raw' = TakeFrom([raw EXCEPT ![o].alive = TRUE], o, src)
    /\ UNCHANGED <<elemKind, vec, ub, last, pushes, calls, hist, heap>>

\* operator=(RawMemory&& rhs), rhs being *this included.
RawMoveAssign(o, src) ==
    /\ raw[o].alive /\ raw[src].alive
    /\ raw' = TakeFrom(raw, o, src)
    /\ UNCHANGED <<elemKind, vec, ub, last, pushes, calls, hist, heap>>

RawSwap(o, q) ==
    /\ raw[o].alive /\ raw[q].alive
    /\ raw' = [raw EXCEPT ![o] = raw[q], ![q] = raw[o]]
    /\ UNCHANGED <<elemKind, vec, ub, last, pushes, calls, hist, heap>>

\* ~RawMemory().
RawDtor(o) ==
    /\ raw[o].alive
    /\ heap' = Deallocate(heap, raw[o].buffer)
    /\ raw' = [raw EXCEPT ![o] = DeadRaw]
    /\ UNCHANGED <<elemKind, vec, ub, last, pushes, calls, hist>>

NextRaw ==
    \/ \E o \in RawObjs, n \in RawSizes : RawCtor(o, n)
    \/ \E o \in RawObjs, src \in RawObjs : RawMoveCtor(o, src)
    \/ \E o \in RawObjs, src \in RawObjs : RawMoveAssign(o, src)
    \/ \E o \in RawObjs, q \in RawObjs : RawSwap(o, q)
    \/ \E o \in RawObjs : RawDtor(o)

SpecRaw == Init /\ [][NextRaw]_vars

\* -------------------------------------------------------------- properties
\* The smallest power of two that is at least k.
Pow2Ceil(k) ==
    LET P == {2 ^ i : i \in 0..(HeapSlots + 1)}
    IN  CHOOSE c \in P : c >= k /\ \A d \in P : d >= k => c <= d

Moves == {"Swap", "MoveAssign", "CtorMove"}

\* C1: a vector's capacity is at least its size after every call, and no call
\* other than move construction, move assignment and Swap leaves a vector
\* with a smaller capacity than it had before the call.
C1_CapacityHoldsSize ==
    [][\A v \in Vecs :
          /\ vec'[v].cap >= vec'[v].size
          /\ (vec[v].alive /\ vec'[v].alive /\ last'.op \notin Moves)
                => vec'[v].cap >= vec[v].cap]_vars

C1_Witness ==
    /\ last.op = "Resize" /\ last.path = "shrink"
    /\ vec[last.v].cap = 4 /\ vec[last.v].size = 1

\* C2 as stated: after any sequence of PushBack and PopBack calls on a vector
\* that started empty, the size is the number of pushes minus the number of
\* pops, and the elements are the pushed values in the order pushed.
C2_SizeIsPushesMinusPops ==
    /\ vec[1].size = calls.push - calls.pop
    /\ Elems(vec[1]) = hist

\* C2 as amended: the size is the number of pushes minus the number of pops
\* made on a non-empty vector (PopBack on an empty vector does nothing), and
\* the elements are the values pushed and not popped, in the order pushed.
C2_SizeIsPushesMinusEffectivePops ==
    /\ vec[1].size = calls.push - (calls.pop - calls.popEmpty)
    /\ Elems(vec[1]) = hist

C2_Witness ==
    /\ calls.push = 3 /\ calls.pop = 2 /\ calls.popEmpty = 1
    /\ last.op = "PushBack" /\ last.path = "realloc" /\ last.what = "none"
    /\ vec[1].size = 2

Inserting == {"PushBack", "Emplace"}

\* C3: when a PushBack or Emplace that reallocates throws, from the new
\* element's constructor or from the copy of an old element into the new
\* block, the vector is as it was before the call: size, capacity, block and
\* contents, the new block being the only one released.
C3_FailedGrowthLeavesVector ==
    [][(last'.op \in Inserting /\ last'.path = "realloc" /\ last'.what # "none")
          => /\ vec' = vec
             /\ last'.allocs = 1 /\ last'.frees = 1]_vars

C3_Witness ==
    /\ last.op = "Emplace" /\ last.path = "realloc" /\ last.what = "copy"
    /\ last.pos = 1 /\ vec[last.v].size = 2 /\ elemKind = "copy"

\* C4: when a reallocating PushBack or Emplace throws while copying the old
\* elements, every object the call constructed is destroyed by it: as many
\* element objects are alive after the call as before it.
C4_FailedGrowthDestroysWhatItBuilt ==
    (last.op \in Inserting /\ last.path = "realloc" /\ last.what = "copy")
        => last.ctor = last.dtor

\* C5: when Emplace has room (size < capacity) and the new value's constructor
\* throws, the vector is untouched and the call releases no storage.
C5_FailedInPlaceEmplaceUntouched ==
    [][(last'.op = "Emplace" /\ last'.path \in {"inplace", "shift"} /\ last'.what = "value")
          => vec' = vec /\ last'.frees = 0]_vars

\* C6: when Reserve, Resize or copy assignment throws, the vector's size,
\* capacity and elements are what they were before the call.
C6_FailedCallCommitsNothing ==
    [][(last'.op \in {"Reserve", "Resize", "CopyAssign"} /\ last'.what # "none")
          => \A v \in Vecs :
                /\ vec'[v].size = vec[v].size
                /\ vec'[v].cap = vec[v].cap
                /\ Elems(vec'[v]) = Elems(vec[v])]_vars

\* C7: a copy assignment a = b that returns leaves a with b's size and
\* elements and b as it was, has destroyed once each element a held beyond
\* b's size and no other that a still holds, and leaves no object in a's
\* slots beyond its size; a = a changes nothing and neither constructs nor
\* destroys an element.
C7_CopyAssignPostcondition ==
    [][(last'.op = "CopyAssign" /\ last'.what = "none")
          => LET a == vec[last'.v]
                 b == vec[last'.w]
                 a2 == vec'[last'.v]
             IN  IF last'.v # last'.w
                 THEN /\ a2.size = b.size
                      /\ Elems(a2) = Elems(b)
                      /\ vec'[last'.w] = b
                      /\ \A i \in (a2.size + 1)..a2.cap : a2.slots[i] = Raw
                      /\ last'.dtor = IF last'.path = "rebuild" THEN a.size
                                      ELSE Max(0, a.size - b.size)
                      /\ last'.ctor - last'.dtor = a2.size - a.size
                      /\ last'.path = IF b.size > a.cap THEN "rebuild"
                                      ELSE IF b.size < a.size THEN "shorter" ELSE "longer"
                 ELSE /\ vec' = vec
                      /\ last'.ctor = 0 /\ last'.dtor = 0]_vars

C7_Witness ==
    /\ last.op = "CopyAssign" /\ last.path = "shorter" /\ last.what = "none"
    /\ last.dtor = 2 /\ vec[last.v].size = 1 /\ vec[last.v].cap = 3

\* C8: Insert at index p returns index p, where the value now is; an Erase at
\* p that follows returns p and leaves the vector with the elements and the
\* size it had before the Insert, whichever branch the Insert took.
C8_InsertThenEraseRestores ==
    /\ (last.op = "Emplace" /\ last.what = "none")
          => /\ last.ret = last.pos
             /\ vec[last.v].slots[last.pos + 1] = last.val
             /\ vec[last.v].size = Len(last.orig) + 1
    /\ (last.op = "Erase" /\ last.what = "none" /\ last.undo # "none")
          => /\ last.ret = last.pos
             /\ Elems(vec[last.v]) = last.orig
             /\ vec[last.v].size = Len(last.orig)

C8_Witness ==
    /\ last.op = "Erase" /\ last.what = "none" /\ last.undo = "shift"
    /\ last.pos = 0 /\ last.orig = <<"a", "b">>

\* C9: a PushBack or Emplace that is called with size = capacity and returns
\* leaves the capacity at max(1, 2 * the old capacity); and a vector that was
\* default-constructed and has since only had k >= 1 PushBack calls return
\* has the smallest power of two >= k as its capacity.
C9_GrowthDoubles ==
    [][\A v \in Vecs :
          /\ (last'.op \in Inserting /\ last'.v = v /\ last'.what = "none"
                /\ vec[v].size = vec[v].cap)
                => vec'[v].cap = Max(1, 2 * vec[v].cap)
          /\ pushes'[v] >= 1 => vec'[v].cap = Pow2Ceil(pushes'[v])]_vars

C9_Witness ==
    \E v \in Vecs : pushes[v] = 3 /\ vec[v].cap = 4 /\ last.op = "PushBack" /\ last.path = "realloc"

\* C10: every allocated block is owned by exactly one RawMemory object until
\* it is released, and no block is released twice.
C10_BlocksOwnedOnce ==
    \A b \in BlockIds :
        /\ heap[b] # "corrupt"
        /\ heap[b] = "alloc" => Cardinality({o \in RawObjs : raw[o].alive /\ raw[o].buffer = b}) = 1

====
